---- MODULE Spec2Model ----
(***************************************************************************)
(* Model of the batch resource loader of src/src/io.rs (Loader): the       *)
(* shared map `loads`, the loop of load_with_progress, the two variants of *)
(* load_file (native: synchronous read; wasm32: spawned future), the       *)
(* self-rescheduling poll of wait_local, and the lookup Loader::get.       *)
(***************************************************************************)
EXTENDS Integers, Sequences, FiniteSets, TLC

\* ---- bounds of the model ------------------------------------------------
MaxPaths == 3
MaxBodyLen == 1
MaxByte == 2

\* ---- inputs -------------------------------------------------------------
\* resource identifiers a caller may pass or look up
Ids == {"a", "b"}

\* the slices `paths` a caller may pass to load_with_progress
PathLists == UNION {[1..n -> Ids] : n \in 0..MaxPaths}

\* byte buffers a read or a response body can deliver (Vec<u8>)
Bodies == UNION {[1..n -> 1..MaxByte] : n \in 0..MaxBodyLen}

\* the two cfg(target_arch) builds
Variants == {"native", "wasm"}

\* ---- Result<Vec<u8>, std::io::Error> ------------------------------------
Ok(b) == [ok |-> TRUE, bytes |-> b, err |-> "none"]

Err(e) == [ok |-> FALSE, bytes |-> <<>>, err |-> e]

\* an insert that forgets the keys inserted before
InsertFresh(m, k, v) == [x \in {k} |-> v]

\* an insert that stores the value under every key
InsertClobber(m, k, v) == [x \in (DOMAIN m) \cup {k} |-> v]

\* HashMap::insert: adds the key or overwrites the value stored under it
Insert(m, k, v) == [x \in (DOMAIN m) \cup {k} |-> IF x = k THEN v ELSE m[x]]

\* a test that also counts the empty placeholder (>= for >)
CountedAny(e) == (~e.ok) \/ Len(e.bytes) >= 0

\* the test of wait_local that counts an entry:
\* bytes.is_err() || bytes.as_ref().unwrap().len() > 0
Counted(e) == (~e.ok) \/ Len(e.bytes) > 0

\* a loop that forgets the is_err() half of the test
CountOk(m) == Cardinality({k \in DOMAIN m : m[k].ok /\ Len(m[k].bytes) > 0})

\* `count` after the loop over map.values()
Count(m) == Cardinality({k \in DOMAIN m : Counted(m[k])})

\* map.len()
TotalCount(m) == Cardinality(DOMAIN m)

\* ---- Loader::get --------------------------------------------------------
NotLoadedMsg == "Tried to use a resource which was not loaded: "

LoadFailedMsg == "Could not load resource: "

FailedToLoad(text, path) == [ok |-> FALSE, bytes |-> <<>>, message |-> <<text, path>>]

\* a lookup whose map_err reuses the message of ok_or
getSameMessage(loaded, path) ==
    IF path \notin DOMAIN loaded
    THEN FailedToLoad(NotLoadedMsg, path)
    ELSE IF ~loaded[path].ok
         THEN FailedToLoad(NotLoadedMsg, path)
         ELSE [ok |-> TRUE, bytes |-> loaded[path].bytes, message |-> <<>>]

\* loaded.get(path).ok_or(..)?.as_ref().map_err(..)?
get(loaded, path) ==
    IF path \notin DOMAIN loaded
    THEN FailedToLoad(NotLoadedMsg, path)
    ELSE IF ~loaded[path].ok
         THEN FailedToLoad(LoadFailedMsg, path)
         ELSE [ok |-> TRUE, bytes |-> loaded[path].bytes, message |-> <<>>]

\* ---- RefCell<Loaded> ----------------------------------------------------
\* RefCell::new: no outstanding borrow
Unborrowed == [readers |-> 0, writer |-> FALSE, panicked |-> FALSE]

\* RefCell::borrow_mut: panics when any borrow is outstanding
BorrowMut(c) ==
    IF c.readers > 0 \/ c.writer
    THEN [c EXCEPT !.panicked = TRUE]
    ELSE [c EXCEPT !.writer = TRUE]

\* drop of the RefMut
DropMut(c) == [c EXCEPT !.writer = FALSE]

\* RefCell::try_borrow is Ok unless a mutable borrow is outstanding
TryBorrowOk(c) == ~c.writer

\* the Ref handed out by a successful try_borrow
Borrow(c) == [c EXCEPT !.readers = @ + 1]

\* drop of the Ref
DropRef(c) == [c EXCEPT !.readers = @ - 1]

\* loads.borrow_mut().insert(..): the RefMut is a temporary of the statement
InsertBorrow(c) == DropMut(BorrowMut(c))

\* a match whose guard `map` outlives the arm
AfterMatchHeld(c, acquired) == c

\* the end of the match of wait_local: the Ok arm drops its guard `map`
AfterMatch(c, acquired) == IF acquired THEN DropRef(c) ELSE c

\* a comparison that stops one entry early
IsLoadingShort(count, total_count) == count + 1 < total_count

\* the value of the Ok arm: count < total_count
IsLoading(count, total_count) == count < total_count

\* ---- state --------------------------------------------------------------
VARIABLES
    variant,      \* which build runs
    paths,        \* argument of load_with_progress
    pc,           \* position of the caller inside load_with_progress
    idx,          \* index of the `for path in paths` loop
    loads,        \* the shared map Rc<RefCell<Loaded>>
    tag,          \* per key: Pending placeholder, or which terminal write it holds
    fetch,        \* per loop iteration: position of its load_file and its writes
    poller,       \* wait_local: not started, a tick scheduled, or finished
    progress,     \* <<>> or <<[count, total]>>: last argument of progress_callback
    onDoneCalls,  \* number of invocations of on_done
    doneMap,      \* the map on_done received
    doneTag,      \* tag at the moment on_done was invoked
    getCall,      \* <<>> or <<[path, result]>>: last call of Loader::get by on_done
    lastTick,     \* <<>> or <<what the last run of the closure of wait_local did>>
    refcell       \* borrow state of the RefCell around the map

vars == <<variant, paths, pc, idx, loads, tag, fetch, poller, progress,
          onDoneCalls, doneMap, doneTag, getCall, lastTick, refcell>>

EmptyMap == [x \in {} |-> 0]

NoFetch == [pc |-> "none", writes |-> 0]

Init ==
    /\ variant \in Variants
    /\ paths \in PathLists
    /\ pc = "seed"
    /\ idx = 1
    /\ loads = EmptyMap
    /\ tag = EmptyMap
    /\ fetch = [i \in 1..Len(paths) |-> NoFetch]
    /\ poller = "idle"
    /\ progress = <<>>
    /\ onDoneCalls = 0
    /\ doneMap = EmptyMap
    /\ doneTag = EmptyMap
    /\ getCall = <<>>
    /\ lastTick = <<>>
    /\ refcell = Unborrowed

\* ---- load_with_progress -------------------------------------------------
\* loads.borrow_mut().insert((*path).to_owned(), Ok(Vec::new()))
Seed ==
    /\ pc = "seed"
    /\ idx <= Len(paths)
    /\ loads' = Insert(loads, paths[idx], Ok(<<>>))
    /\ tag' = Insert(tag, paths[idx], "Pending")
    /\ pc' = "load"
    /\ refcell' = InsertBorrow(refcell)
    /\ UNCHANGED <<variant, paths, idx, fetch, poller, progress, onDoneCalls,
                   doneMap, doneTag, getCall, lastTick>>

\* the outcomes of File::open followed by read_to_end
NativeOutcomes == {Err("open"), Err("read")} \cup {Ok(b) : b \in Bodies}

\* what the entry holds after a write of result r
TagOf(r) == IF r.ok THEN "Success" ELSE "Failure"

\* a load_file that only notes the request and reads nothing
LoadFileNativeDeferred ==
    /\ variant = "native"
    /\ pc = "load"
    /\ fetch' = [fetch EXCEPT ![idx] = [pc |-> "spawned", writes |-> 0]]
    /\ pc' = "seed"
    /\ idx' = idx + 1
    /\ UNCHANGED <<variant, paths, loads, tag, poller, progress, onDoneCalls,
                   doneMap, doneTag, getCall, lastTick, refcell>>

\* native load_file: open, read to the end and insert, on the caller's stack
LoadFileNative ==
    /\ variant = "native"
    /\ pc = "load"
    /\ \E r \in NativeOutcomes :
          /\ loads' = Insert(loads, paths[idx], r)
          /\ tag' = Insert(tag, paths[idx], TagOf(r))
    /\ fetch' = [fetch EXCEPT ![idx] = [pc |-> "done", writes |-> 1]]
    /\ pc' = "seed"
    /\ idx' = idx + 1
    /\ refcell' = InsertBorrow(refcell)
    /\ UNCHANGED <<variant, paths, poller, progress, onDoneCalls, doneMap,
                   doneTag, getCall, lastTick>>

\* wasm32 load_file: spawn_local(load_file_async(path, loads))
LoadFileSpawn ==
    /\ variant = "wasm"
    /\ pc = "load"
    /\ fetch' = [fetch EXCEPT ![idx] = [pc |-> "spawned", writes |-> 0]]
    /\ pc' = "seed"
    /\ idx' = idx + 1
    /\ UNCHANGED <<variant, paths, loads, tag, poller, progress, onDoneCalls,
                   doneMap, doneTag, getCall, lastTick, refcell>>

\* the call of wait_local that ends load_with_progress: native sleep blocks
\* the caller and runs the closure on its stack, wasm32 sleep registers a
\* Timeout and returns
WaitLocal ==
    /\ pc = "seed"
    /\ idx > Len(paths)
    /\ poller' = "Polling"
    /\ pc' = IF variant = "native" THEN "sleeping" ELSE "returned"
    /\ UNCHANGED <<variant, paths, idx, loads, tag, fetch, progress,
                   onDoneCalls, doneMap, doneTag, getCall, lastTick, refcell>>

\* ---- load_file_async (wasm32) -------------------------------------------
\* tasks and timeouts run from the event loop, once the caller has returned
\* the first poll of the future: builds the request and issues the fetch;
\* spawned tasks are polled in the order they were spawned
FetchStart(i) ==
    /\ i \in DOMAIN fetch
    /\ variant = "wasm"
    /\ pc = "returned"
    /\ fetch[i].pc = "spawned"
    /\ \A j \in 1..(i - 1) : fetch[j].pc # "spawned"
    /\ \E valid \in BOOLEAN :
          fetch' = [fetch EXCEPT ![i].pc = IF valid THEN "awaitResp" ELSE "panicked"]
    /\ UNCHANGED <<variant, paths, pc, idx, loads, tag, poller, progress,
                   onDoneCalls, doneMap, doneTag, getCall, lastTick, refcell>>

\* JsFuture::from(window.fetch_with_request(&request)).await.unwrap()
\* followed by resp.array_buffer().unwrap()
FetchResponse(i) ==
    /\ i \in DOMAIN fetch
    /\ variant = "wasm"
    /\ pc = "returned"
    /\ fetch[i].pc = "awaitResp"
    /\ \E resolved \in BOOLEAN :
          fetch' = [fetch EXCEPT ![i].pc = IF resolved THEN "awaitBody" ELSE "panicked"]
    /\ UNCHANGED <<variant, paths, pc, idx, loads, tag, poller, progress,
                   onDoneCalls, doneMap, doneTag, getCall, lastTick, refcell>>

\* JsFuture::from(..array_buffer..).await.unwrap() and the insert of line 196
FetchBody(i) ==
    /\ i \in DOMAIN fetch
    /\ variant = "wasm"
    /\ pc = "returned"
    /\ fetch[i].pc = "awaitBody"
    /\ \/ /\ \E b \in Bodies :
                /\ loads' = Insert(loads, paths[i], Ok(b))
                /\ tag' = Insert(tag, paths[i], "Success")
          /\ fetch' = [fetch EXCEPT ![i] = [pc |-> "done", writes |-> @.writes + 1]]
          /\ refcell' = InsertBorrow(refcell)
       \/ /\ fetch' = [fetch EXCEPT ![i].pc = "panicked"]
          /\ UNCHANGED <<loads, tag, refcell>>
    /\ UNCHANGED <<variant, paths, pc, idx, poller, progress, onDoneCalls,
                   doneMap, doneTag, getCall, lastTick>>

\* ---- wait_local ---------------------------------------------------------
\* the closure handed to sleep: one tick of the poll
Tick ==
    /\ poller = "Polling"
    /\ LET acquired == TryBorrowOk(refcell)
           held == IF acquired THEN Borrow(refcell) ELSE refcell
           total_count == TotalCount(loads)
           count == Count(loads)
           is_loading == IF acquired THEN IsLoading(count, total_count) ELSE TRUE
           released == AfterMatch(held, acquired)
       IN  /\ progress' = IF acquired
                          THEN <<[count |-> count, total |-> total_count]>>
                          ELSE progress
           /\ lastTick' = <<[flip |-> IF lastTick = <<>> THEN 0 ELSE 1 - lastTick[1].flip,
                             acquired |-> acquired,
                             reported |-> IF acquired THEN 1 ELSE 0,
                             rescheduled |-> IF is_loading THEN 1 ELSE 0,
                             on_done |-> ~is_loading]>>
           /\ IF is_loading
              THEN /\ refcell' = released
                   /\ UNCHANGED <<poller, pc, onDoneCalls, doneMap, doneTag>>
              ELSE /\ poller' = "Done"
                   /\ refcell' = DropMut(BorrowMut(released))
                   /\ onDoneCalls' = onDoneCalls + 1
                   /\ doneMap' = loads
                   /\ doneTag' = tag
                   /\ pc' = "returned"
    /\ UNCHANGED <<variant, paths, idx, loads, tag, fetch, getCall>>

\* ---- on_done's use of the map -------------------------------------------
Get(path) ==
    /\ onDoneCalls > 0
    /\ getCall' = <<[path |-> path, result |-> get(doneMap, path)]>>
    /\ UNCHANGED <<variant, paths, pc, idx, loads, tag, fetch, poller,
                   progress, onDoneCalls, doneMap, doneTag, lastTick, refcell>>

Next ==
    \/ Seed
    \/ LoadFileNative
    \/ LoadFileSpawn
    \/ WaitLocal
    \/ \E i \in 1..MaxPaths : FetchStart(i)
    \/ \E i \in 1..MaxPaths : FetchResponse(i)
    \/ \E i \in 1..MaxPaths : FetchBody(i)
    \/ Tick
    \/ \E path \in Ids : Get(path)

Spec == Init /\ [][Next]_vars

\* every enabled step of the loader, of a task and of the timer is
\* eventually taken
FairSpec ==
    /\ Spec
    /\ WF_vars(Seed \/ LoadFileNative \/ LoadFileSpawn \/ WaitLocal)
    /\ WF_vars(Tick)
    /\ \A i \in 1..MaxPaths : WF_vars(FetchStart(i) \/ FetchResponse(i) \/ FetchBody(i))

\* ---- properties ---------------------------------------------------------
Requested == {paths[i] : i \in 1..Len(paths)}

Ratio(p) == p[1]

\* C1: for a non-empty list, whatever the outcome of each fetch and in both
\* variants, on_done is eventually invoked.
C1_OnDoneEventually == (Len(paths) > 0) => <>(onDoneCalls > 0)

\* C2: on_done is invoked at most once, and at the moment it is invoked no
\* entry is the Pending placeholder: each holds a Failure or a Success
\* written by a fetch.
C2_DoneOnceAllTerminal ==
    /\ onDoneCalls <= 1
    /\ (onDoneCalls = 0) => (poller # "Done")
    /\ (onDoneCalls = 1) =>
          /\ poller = "Done"
          /\ \A k \in DOMAIN doneTag : doneTag[k] \in {"Success", "Failure"}

C2_Witness ==
    /\ onDoneCalls = 1
    /\ \E k \in DOMAIN doneTag : doneTag[k] = "Success"
    /\ \E k \in DOMAIN doneTag : doneTag[k] = "Failure"

\* C3: the key set of the map handed to on_done is the set of distinct
\* identifiers of the list, also when the list repeats an identifier.
C3_DoneKeysAreRequested ==
    (onDoneCalls > 0) => (DOMAIN doneMap = Requested)

C3_Witness ==
    /\ onDoneCalls = 1
    /\ Len(paths) = 3
    /\ Cardinality(DOMAIN doneMap) = 2

\* C4: an entry that holds a terminal write is never changed by a later
\* step (no second write, no return to Pending), for every list.
C4_WriteOnce ==
    [][\A k \in DOMAIN tag :
          (tag[k] # "Pending") =>
             /\ k \in DOMAIN tag'
             /\ tag'[k] = tag[k]
             /\ loads'[k] = loads[k]]_vars

\* C5: in a non-empty batch the reported ratios never decrease and lie in
\* [0, 1], with 0 <= resolved_count <= total_count.
C5_ProgressMonotone ==
    [][(Len(paths) > 0 /\ progress' # <<>>) =>
          /\ Ratio(progress').total > 0
          /\ 0 <= Ratio(progress').count
          /\ Ratio(progress').count <= Ratio(progress').total
          /\ (progress # <<>>) =>
                (Ratio(progress).count * Ratio(progress').total
                    <= Ratio(progress').count * Ratio(progress).total)]_vars

\* C6: get returns the not-loaded error for a missing key, the load-failed
\* error (a different one) for a Failure entry, otherwise exactly the stored
\* bytes; and a call of get leaves the map as it was.
C6_GetContract ==
    /\ [](getCall # <<>> =>
            LET p == getCall[1].path
                r == getCall[1].result
            IN  /\ (p \notin DOMAIN doneMap) =>
                       (~r.ok /\ r.message = <<NotLoadedMsg, p>>)
                /\ (p \in DOMAIN doneMap /\ doneTag[p] = "Failure") =>
                       (~r.ok /\ r.message = <<LoadFailedMsg, p>>)
                /\ (p \in DOMAIN doneMap /\ doneTag[p] # "Failure") =>
                       (r.ok /\ r.bytes = doneMap[p].bytes)
                /\ NotLoadedMsg # LoadFailedMsg)
    /\ [][(getCall' # getCall) => (doneMap' = doneMap /\ loads' = loads)]_vars

C6_Witness ==
    /\ getCall # <<>>
    /\ getCall[1].path \in DOMAIN doneMap
    /\ doneTag[getCall[1].path] = "Failure"
    /\ \E k \in DOMAIN doneMap : doneTag[k] = "Success"

\* C7: every dispatched fetch that has ended, on whatever path, has made
\* exactly one terminal write into its entry.
C7_EveryFetchWritesOnce ==
    \A i \in DOMAIN fetch :
        (fetch[i].pc \in {"done", "panicked"}) => (fetch[i].writes = 1)

\* C8: until load_with_progress has returned, no fetch has read anything
\* and neither callback has been invoked, in both variants.
C8_ReturnsFirst ==
    (pc # "returned") =>
        /\ progress = <<>>
        /\ onDoneCalls = 0
        /\ \A i \in DOMAIN fetch : fetch[i].pc \in {"none", "spawned"}

\* C9: a tick that finds every entry written by its fetch, one of them a
\* zero-length Success, reports 1.0 and invokes on_done.
C9_ZeroLengthResolved ==
    [][(/\ poller = "Polling"
        /\ progress' # progress
        /\ \A k \in DOMAIN tag : tag[k] # "Pending"
        /\ \E k \in DOMAIN tag : tag[k] = "Success" /\ loads[k].bytes = <<>>)
       => (/\ Ratio(progress').count = Ratio(progress').total
           /\ onDoneCalls' = 1)]_vars

\* C10: for an empty list no ratio with total_count = 0 is computed or
\* passed to progress_callback.
C10_NoZeroTotal ==
    (progress # <<>>) => (Ratio(progress).total # 0)

\* the entries the poll is to count: a Failure, or a Success with bytes
ResolvedKeys == {k \in DOMAIN tag :
                    tag[k] = "Failure" \/ (tag[k] = "Success" /\ Len(loads[k].bytes) > 0)}

\* C11: a tick that acquires the map invokes progress_callback exactly once,
\* with resolved_count / total_count: total_count the number of requested
\* keys, resolved_count the number of Failure or non-empty Success entries;
\* also on the completing tick.
C11_ProgressValue ==
    [][(lastTick' # lastTick /\ lastTick'[1].acquired) =>
          /\ lastTick'[1].reported = 1
          /\ progress' = <<[count |-> Cardinality(ResolvedKeys),
                            total |-> Cardinality(Requested)]>>]_vars

C11_Witness ==
    /\ lastTick # <<>>
    /\ lastTick[1].acquired
    /\ progress = <<[count |-> 1, total |-> 2]>>
    /\ \E k \in DOMAIN tag : tag[k] = "Failure"

\* C12: a tick with resolved_count < total_count stays in Polling, does not
\* invoke on_done and schedules one further tick; the poll is left only by
\* a tick that finds every entry resolved (there is no timeout).
C12_StaysPolling ==
    [][/\ (lastTick' # lastTick
             /\ Cardinality(ResolvedKeys) < Cardinality(DOMAIN tag)) =>
          /\ poller' = "Polling"
          /\ onDoneCalls' = onDoneCalls
          /\ lastTick'[1].rescheduled = 1
          /\ ~lastTick'[1].on_done
       /\ (poller = "Polling" /\ poller' # "Polling") =>
          /\ lastTick' # lastTick
          /\ Cardinality(ResolvedKeys) = Cardinality(DOMAIN tag)]_vars

C12_Witness ==
    /\ poller = "Polling"
    /\ lastTick # <<>>
    /\ lastTick[1].flip = 1
    /\ lastTick[1].rescheduled = 1
    /\ progress = <<[count |-> 1, total |-> 2]>>

\* C13: the first tick with resolved_count = total_count reports 1.0 and
\* invokes on_done in that tick; afterwards no tick is scheduled and
\* progress_callback is not invoked again.
C13_CompletingTick ==
    [][/\ (lastTick' # lastTick
             /\ Cardinality(ResolvedKeys) = Cardinality(DOMAIN tag)) =>
          /\ progress' # <<>>
          /\ Ratio(progress').total > 0
          /\ Ratio(progress').count = Ratio(progress').total
          /\ onDoneCalls' = onDoneCalls + 1
          /\ poller' = "Done"
          /\ lastTick'[1].rescheduled = 0
       /\ (poller = "Done") =>
          /\ poller' = "Done"
          /\ lastTick' = lastTick
          /\ progress' = progress]_vars

\* C15: once on_done has been invoked no step of the loader changes the
\* map, for every list and every interleaving.
C15_NoWriteAfterDone ==
    [][(onDoneCalls > 0) => (loads' = loads)]_vars

\* C16: when a fetch has started, the key set of the map is already the set
\* of requested identifiers, in both variants.
C16_SeededBeforeFetch ==
    (\E i \in DOMAIN fetch : fetch[i].pc \notin {"none", "spawned"}) =>
        (DOMAIN loads = Requested)

\* C17: a step of the fetch of paths[i] changes no entry other than
\* paths[i], and a tick changes no entry at all.
C17_Frame ==
    [][/\ \A i \in DOMAIN fetch :
             (fetch'[i] # fetch[i]) =>
                /\ DOMAIN loads' = DOMAIN loads
                /\ \A k \in (DOMAIN loads) \ {paths[i]} : loads'[k] = loads[k]
       /\ (lastTick' # lastTick) => (loads' = loads)]_vars

C17_Witness ==
    /\ Cardinality(DOMAIN loads) = 2
    /\ \E i \in DOMAIN fetch : fetch[i].writes = 1
    /\ \E k \in DOMAIN tag : tag[k] = "Pending"
    /\ lastTick # <<>>
    /\ poller = "Polling"

\* C18: in the native build every fetch has run to its write, in request
\* order, before the poll starts; from then on the map does not change,
\* every tick reports the same value, and a batch that did not complete on
\* its first tick never completes.
C18_NativeFrozen ==
    /\ []((variant = "native") =>
            /\ (poller # "idle") => (\A i \in DOMAIN fetch : fetch[i].pc = "done")
            /\ \A i \in DOMAIN fetch :
                  (fetch[i].pc # "none") =>
                     (\A j \in 1..(i - 1) : fetch[j].pc = "done")
            /\ (lastTick # <<>> /\ lastTick[1].flip = 1) => (onDoneCalls = 0))
    /\ [][(variant = "native" /\ poller # "idle") =>
            /\ loads' = loads
            /\ (progress # <<>>) => (progress' = progress)
            /\ (lastTick # <<>> /\ onDoneCalls = 0) => (onDoneCalls' = 0)]_vars

C18_Witness ==
    /\ variant = "native"
    /\ Len(paths) = 3
    /\ poller = "Polling"
    /\ lastTick # <<>>
    /\ lastTick[1].flip = 1

\* C19: no borrow_mut of the map (seeding, a fetch's write, the one that
\* hands the map to on_done) meets an outstanding borrow, and no borrow
\* outlives the handler that took it.
C19_NoBorrowConflict ==
    /\ ~refcell.panicked
    /\ refcell.readers = 0
    /\ ~refcell.writer

C19_Witness ==
    /\ onDoneCalls = 1
    /\ variant = "wasm"
    /\ lastTick[1].flip = 1
    /\ \E i \in DOMAIN fetch : fetch[i].writes = 1

====
